---- MODULE Spec2Model ----
(***************************************************************************)
(* Model of lektor_i18n.py: the content-document parser and reconstructor, *)
(* the translation memory, the field walker and the build hooks.           *)
(*                                                                         *)
(* Text is a sequence of one-character strings, so that strip, split,      *)
(* replace and the regular expressions are computed character by           *)
(* character, as Python computes them.                                     *)
(***************************************************************************)
EXTENDS Integers, Sequences, FiniteSets, TLC

----------------------------------------------------------------------------
(* Characters and generic string operations (Python str methods).          *)

\* str.strip() with no argument strips these; \s of the re module matches them.
Whitespace == {" ", "\n", "\t", "\r"}

\* chunk.strip("\r\n") / paragraph.strip("\n\r")
CRLF == {"\n", "\r"}

\* The character class [a-zA-Z0-9.-_] of command_re: letters, digits and the
\* RANGE from "." (0x2E) to "_" (0x5F), which holds ":" but neither "-" nor "#".
KeyClass == {"a", "b", "c", ":", "."}

\* on_setup_env: the content language, and the languages to translate into
\* (the content language is appended to them).
content_language == "en"
translations_languages == {"en", "fr"}

\* Python None (prev_line before the first processed line).
None == <<"None">>

\* The characters of the names the model gives to languages, fields, models
\* and flow blocks.
Spell(name) ==
    CASE name = "a" -> <<"a">>
      [] name = "b" -> <<"b">>
      [] name = "c" -> <<"c">>
      [] name = "en" -> <<"e", "n">>
      [] name = "fr" -> <<"f", "r">>
      [] name = "page" -> <<"p", "a", "g", "e">>
      [] name = "text" -> <<"t", "e", "x", "t">>
      [] name = "group" -> <<"g", "r", "o", "u", "p">>

\* str(n) of a page number
Digit(n) == <<"1", "2", "3", "4">>[n]

\* s[i:] of Python, with 1-based i
Drop(s, i) == SubSeq(s, i, Len(s))

\* s.strip(chars)
StripChars(s, chars) ==
    LET keep == {i \in 1..Len(s) : s[i] \notin chars}
    IN  IF keep = {} THEN <<>>
        ELSE SubSeq(s, CHOOSE i \in keep : \A j \in keep : i <= j,
                       CHOOSE i \in keep : \A j \in keep : i >= j)

\* s.strip()
Strip(s) == StripChars(s, Whitespace)

\* "".join(list)
RECURSIVE Concat(_)
Concat(ss) == IF ss = <<>> THEN <<>> ELSE Head(ss) \o Concat(Tail(ss))

\* sep.join(list)
RECURSIVE Join(_, _)
Join(ss, sep) ==
    IF ss = <<>> THEN <<>>
    ELSE IF Len(ss) = 1 THEN ss[1]
    ELSE ss[1] \o sep \o Join(Tail(ss), sep)

\* s.split(c) for a one-character separator c: always at least one piece.
RECURSIVE SplitChar(_, _)
SplitChar(s, c) ==
    LET hits == {i \in 1..Len(s) : s[i] = c}
    IN  IF hits = {} THEN <<s>>
        ELSE LET i == CHOOSE k \in hits : \A j \in hits : k <= j
             IN  <<SubSeq(s, 1, i - 1)>> \o SplitChar(Drop(s, i + 1), c)

\* old occurs in s at position i (1-based)
OccursAt(s, old, i) ==
    /\ i + Len(old) - 1 <= Len(s)
    /\ SubSeq(s, i, i + Len(old) - 1) = old

\* s.replace(old, new, count): the first count non-overlapping occurrences,
\* left to right; count = -1 means all. An empty old matches before every
\* character and at the end.
RECURSIVE Replace(_, _, _, _)
Replace(s, old, new, count) ==
    IF count = 0 THEN s
    ELSE IF old = <<>> THEN
        IF s = <<>> THEN new
        ELSE new \o <<Head(s)>> \o Replace(Tail(s), old, new, count - 1)
    ELSE
        LET hits == {i \in 1..Len(s) : OccursAt(s, old, i)}
        IN  IF hits = {} THEN s
            ELSE LET i == CHOOSE k \in hits : \A j \in hits : k <= j
                 IN  SubSeq(s, 1, i - 1) \o new
                       \o Replace(Drop(s, i + Len(old)), old, new, count - 1)

----------------------------------------------------------------------------
(* Line classification: line_starts_new_block, block2re, command_re.       *)

\* line_starts_new_block(line, prev_line)
line_starts_new_block(line, prev_line) ==
    IF prev_line = None \/ prev_line = <<>>
          \/ ~(\E i \in 1..Len(prev_line) : prev_line[i] = ":")
    THEN FALSE  \* could be a Markdown heading
    ELSE LET l == Strip(line)
         IN  (\A i \in 1..Len(l) : l[i] = "-") /\ Len(l) >= 3

\* number of "#" at the start / at the end of s
LeadingHashes(s) ==
    Cardinality({i \in 1..Len(s) : \A j \in 1..i : s[j] = "#"})
TrailingHashes(s) ==
    Cardinality({i \in 1..Len(s) : \A j \in i..Len(s) : s[j] = "#"})

\* block2re.search(s) is not None, for
\* block2re = ^###(#+)\s*([^#]*?)\s*###(#+)\s*$ and s without a trailing
\* blank: at least four "#", a text without "#", at least four "#".
block2re_search(s) ==
    LET m == LeadingHashes(s)
        n == TrailingHashes(s)
    IN  IF m = Len(s) THEN m >= 8
        ELSE /\ m >= 4
             /\ n >= 4
             /\ \A i \in (m + 1)..(Len(s) - n) : s[i] # "#"

\* The ends j of a key starting at i: s[i..j-1] is in the class and s[j] = ":"
KeyEnds(s, i) ==
    {j \in (i + 1)..Len(s) :
        /\ s[j] = ":"
        /\ \A k \in i..(j - 1) : s[k] \in KeyClass}

\* command_re.search(s) for command_re = ([a-zA-Z0-9.-_]+):\s*(.*?)?\s*$ on a
\* line without a newline: the leftmost start, the longest key (greedy +),
\* the value without its surrounding blanks. matched is FALSE for Python's
\* None result.
command_re_search(s) ==
    LET starts == {i \in 1..Len(s) : KeyEnds(s, i) # {}}
    IN  IF starts = {} THEN [matched |-> FALSE, key |-> <<>>, value |-> <<>>]
        ELSE LET i == CHOOSE k \in starts : \A j \in starts : k <= j
                 e == CHOOSE k \in KeyEnds(s, i) : \A j \in KeyEnds(s, i) : k >= j
             IN  [matched |-> TRUE, key |-> SubSeq(s, i, e - 1),
                  value |-> Strip(Drop(s, e + 1))]

----------------------------------------------------------------------------
(* I18NPlugin.__parse_source_structure                                     *)

\* The local variables before the loop.
ParseInit ==
    [blocks |-> <<>>, count_lines_block |-> 0, is_content |-> FALSE,
     prev_line |-> None]

\* The line is a block boundary in state st (the condition of the first if).
IsBoundary(st, line) ==
    \/ line_starts_new_block(Strip(line), st.prev_line)
    \/ block2re_search(Strip(line))

\* Mutant of CommandBlocks: the newline closing the line is forgotten.
CommandBlocks_NoNewline(match) ==
    <<<<"raw", match.key \o <<":">>>>>>
      \o (IF match.value # <<>>
          THEN <<<<"raw", <<" ">>>>, <<"translatable", match.value>>>>
          ELSE <<>>)

\* The spans the key: value branch appends.
CommandBlocks(match) ==
    <<<<"raw", match.key \o <<":">>>>>>
      \o (IF match.value # <<>>
          THEN <<<<"raw", <<" ">>>>, <<"translatable", match.value>>>>
          ELSE <<>>)
      \o <<<<"raw", <<"\n">>>>>>

\* Mutant of ClassifyLine: every matching line is split as key: value, also
\* after the first line of the block and in content mode.
ClassifyLine_NotSticky(st, line) ==
    IF IsBoundary(st, line) THEN
        [st EXCEPT !.count_lines_block = 0, !.is_content = FALSE,
                   !.blocks = Append(@, <<"raw", line>>)]
    ELSE
        LET count == st.count_lines_block + 1
            match == command_re_search(Strip(line))
        IN  IF match.matched
            THEN [st EXCEPT !.count_lines_block = count,
                            !.blocks = @ \o CommandBlocks(match)]
            ELSE [st EXCEPT !.count_lines_block = count, !.is_content = TRUE]

\* The if / else on a non-empty line: a boundary, or a line of the block.
ClassifyLine(st, line) ==
    IF IsBoundary(st, line) THEN
        [st EXCEPT !.count_lines_block = 0, !.is_content = FALSE,
                   !.blocks = Append(@, <<"raw", line>>)]
    ELSE
        LET count == st.count_lines_block + 1
            match == command_re_search(Strip(line))
        IN  IF count = 1 /\ ~st.is_content /\ match.matched
            THEN [st EXCEPT !.count_lines_block = count,
                            !.blocks = @ \o CommandBlocks(match)]
            ELSE [st EXCEPT !.count_lines_block = count, !.is_content = TRUE]

\* One iteration of the loop over the lines.
ProcessLine(st, line) ==
    IF Strip(line) = <<>> THEN  \* empty line: continue, prev_line is kept
        [st EXCEPT !.blocks = Append(@, <<"raw", <<"\n">>>>)]
    ELSE
        LET st1 == ClassifyLine(st, line)
            st2 == IF st1.is_content
                   THEN [st1 EXCEPT !.blocks = Append(@, <<"translatable", line>>)]
                   ELSE st1
        IN  [st2 EXCEPT !.prev_line = line]

\* The whole loop over the lines.
RECURSIVE ParseLines(_, _)
ParseLines(st, lines) ==
    IF lines = <<>> THEN st
    ELSE ParseLines(ProcessLine(st, Head(lines)), Tail(lines))

\* Mutant of MergeStep: a block is never joined to its neighbour.
MergeStep_NoJoin(newblocks, block) == Append(newblocks, block)

\* One iteration of the merge loop: join neighbour blocks of the same type.
MergeStep(newblocks, block) ==
    IF Len(newblocks) > 0 /\ newblocks[Len(newblocks)][1] = block[1]
    THEN [newblocks EXCEPT ![Len(newblocks)] = <<@[1], @[2] \o block[2]>>]
    ELSE Append(newblocks, block)

RECURSIVE MergeInto(_, _)
MergeInto(newblocks, blocks) ==
    IF blocks = <<>> THEN newblocks
    ELSE MergeInto(MergeStep(newblocks, Head(blocks)), Tail(blocks))

\* The merge loop.
MergeBlocks(blocks) == MergeInto(<<>>, blocks)

\* __parse_source_structure(lines)
parse_source_structure(lines) == MergeBlocks(ParseLines(ParseInit, lines).blocks)

\* The text of a span sequence, in order.
RECURSIVE BlocksText(_)
BlocksText(blocks) ==
    IF blocks = <<>> THEN <<>> ELSE Head(blocks)[2] \o BlocksText(Tail(blocks))

----------------------------------------------------------------------------
(* split_paragraphs and the reconstructor: __trans_linewise, __trans_parwise *)

\* The ends j of a match of \n(?:\s*\n){1,} starting at i: s[i] and s[j] are
\* newlines with only whitespace between them.
SeparatorEnds(s, i) ==
    {j \in (i + 1)..Len(s) :
        /\ s[j] = "\n"
        /\ \A k \in (i + 1)..(j - 1) : s[k] \in Whitespace}

\* re.split("\n(?:\s*\n){1,}", document): cut at the leftmost, longest
\* separators; always at least one piece. (A list of lines is joined by the
\* caller, as the isinstance branch does.)
RECURSIVE split_paragraphs(_)
split_paragraphs(document) ==
    LET starts == {i \in 1..Len(document) :
                      document[i] = "\n" /\ SeparatorEnds(document, i) # {}}
    IN  IF starts = {} THEN <<document>>
        ELSE LET i == CHOOSE k \in starts : \A j \in starts : k <= j
                 e == CHOOSE k \in SeparatorEnds(document, i) :
                         \A j \in SeparatorEnds(document, i) : k >= j
             IN  <<SubSeq(document, 1, i - 1)>>
                   \o split_paragraphs(Drop(document, e + 1))

\* translator.gettext(text) of gettext.translation(..., fallback=True): the
\* catalog's entry, or the text itself when the catalog has none.
gettext(translator, text) ==
    IF text \in DOMAIN translator THEN translator[text] ELSE text

\* The body of the loop of __trans_linewise for one physical line.
TransLine(line, translator) ==
    LET line_stripped == Strip(line)
        trans_stripline == IF line_stripped # <<>>
                           THEN gettext(translator, line_stripped)
                           ELSE <<>>
    IN  Replace(line, line_stripped, trans_stripline, 1)

\* __trans_linewise(content, translator)
trans_linewise(content, translator) ==
    LET parts == SplitChar(content, "\n")
    IN  Join([i \in 1..Len(parts) |-> TransLine(parts[i], translator)], <<"\n">>)

\* The body of the loop of __trans_parwise for one paragraph.
TransParagraph(paragraph, translator) ==
    LET stripped == StripChars(paragraph, CRLF)
    IN  Replace(paragraph, stripped, gettext(translator, stripped), -1)

\* __trans_parwise(content, translator)
trans_parwise_(content, translator) ==
    LET parts == split_paragraphs(content)
    IN  Join([i \in 1..Len(parts) |-> TransParagraph(parts[i], translator)],
             <<"\n", "\n">>)

\* Mutant of LookupsLine: the stripped line is looked up without the test
\* that it is not empty.
LookupsLine_NoSkip(line) == <<Strip(line)>>

\* The texts the loop of __trans_linewise passes to translator.gettext for
\* one physical line: the stripped line, if it is not empty.
LookupsLine(line) == IF Strip(line) # <<>> THEN <<Strip(line)>> ELSE <<>>

\* The texts __trans_linewise passes to translator.gettext, in order.
lookups_linewise(content) ==
    LET parts == SplitChar(content, "\n")
    IN  Concat([i \in 1..Len(parts) |-> LookupsLine(parts[i])])

\* The texts __trans_parwise passes to translator.gettext, in order.
lookups_parwise(content) ==
    LET parts == split_paragraphs(content)
    IN  [i \in 1..Len(parts) |-> StripChars(parts[i], CRLF)]

\* The texts translate_contents has looked up for the chunks, in order.
RECURSIVE Lookups(_, _)
Lookups(chunks_, parwise) ==
    IF chunks_ = <<>> THEN <<>>
    ELSE (IF Head(chunks_)[1] = "raw" THEN <<>>
          ELSE IF parwise THEN lookups_parwise(Head(chunks_)[2])
          ELSE lookups_linewise(Head(chunks_)[2]))
           \o Lookups(Tail(chunks_), parwise)

\* What translate_contents writes for one chunk.
WriteChunk(chunk, parwise, translator) ==
    IF chunk[1] = "raw" THEN chunk[2]
    ELSE IF parwise THEN trans_parwise_(chunk[2], translator)
    ELSE trans_linewise(chunk[2], translator)

\* The translated file: the loop over the chunks of translate_contents.
RECURSIVE WriteChunks(_, _, _)
WriteChunks(chunks, parwise, translator) ==
    IF chunks = <<>> THEN <<>>
    ELSE WriteChunk(Head(chunks), parwise, translator)
           \o WriteChunks(Tail(chunks), parwise, translator)

----------------------------------------------------------------------------
(* Translations: the memory. The OrderedDict is the sequence of its items  *)
(* <<text, sources>> in insertion order.                                   *)

\* Translations.__init__
NoTranslations == <<>>

\* self.translations.keys()
Keys(memory) == {memory[i][1] : i \in 1..Len(memory)}

\* self.translations[text], for a text that is a key
Sources(memory, text) ==
    memory[CHOOSE i \in 1..Len(memory) : memory[i][1] = text][2]

InSeq(x, xs) == \E i \in 1..Len(xs) : xs[i] = x

\* Mutant of add: the source is appended without looking for it in the list.
add_AlwaysAppend(memory, text, source) ==
    LET m1 == IF text \notin Keys(memory)
              THEN Append(memory, <<text, <<>>>>)
              ELSE memory
    IN  [i \in 1..Len(m1) |->
            IF m1[i][1] = text THEN <<text, Append(m1[i][2], source)>> ELSE m1[i]]

\* Translations.add(text, source)
add(memory, text, source) ==
    LET m1 == IF text \notin Keys(memory)
              THEN Append(memory, <<text, <<>>>>)
              ELSE memory
    IN  IF ~InSeq(source, Sources(m1, text))
        THEN [i \in 1..Len(m1) |->
                IF m1[i][1] = text THEN <<text, Append(m1[i][2], source)>>
                ELSE m1[i]]
        ELSE m1

\* One add per call <<text, source>>, in order.
RECURSIVE AddAll(_, _)
AddAll(memory, calls) ==
    IF calls = <<>> THEN memory
    ELSE AddAll(add(memory, Head(calls)[1], Head(calls)[2]), Tail(calls))

----------------------------------------------------------------------------
(* Translations.as_pot: the template.                                      *)

\* The characters of the model in the order of their code points: Python
\* compares strings by code point.
CodeOrder ==
    <<"\t", "\n", "\r", " ", "\"", "#", "(", ")", "-", ".", "/",
      "1", "2", "3", "4", ":", "\\",
      "a", "b", "c", "d", "e", "f", "g", "h", "i", "j", "k", "l", "m",
      "n", "o", "p", "q", "r", "s", "t", "u", "v", "w", "x", "y", "z">>

\* ord(c), up to a monotone renumbering
Ord(c) == CHOOSE i \in 1..Len(CodeOrder) : CodeOrder[i] = c

\* s < t for two strings
RECURSIVE StrLess(_, _)
StrLess(s, t) ==
    IF t = <<>> THEN FALSE
    ELSE IF s = <<>> THEN TRUE
    ELSE IF Head(s) = Head(t) THEN StrLess(Tail(s), Tail(t))
    ELSE Ord(Head(s)) < Ord(Head(t))

\* ps < qs for two lists of strings
RECURSIVE ListLess(_, _)
ListLess(ps, qs) ==
    IF qs = <<>> THEN FALSE
    ELSE IF ps = <<>> THEN TRUE
    ELSE IF Head(ps) = Head(qs) THEN ListLess(Tail(ps), Tail(qs))
    ELSE StrLess(Head(ps), Head(qs))

\* x < y for two tuples (paths, msg)
TupleLess(x, y) ==
    \/ ListLess(x[1], y[1])
    \/ x[1] = y[1] /\ StrLess(x[2], y[2])

\* sorted(paths): a stable sort, as an insertion from the left.
RECURSIVE InsertPath(_, _)
InsertPath(path, paths) ==
    IF paths = <<>> THEN <<path>>
    ELSE IF StrLess(path, Head(paths)) THEN <<path>> \o paths
    ELSE <<Head(paths)>> \o InsertPath(path, Tail(paths))

\* Mutant of sorted_paths: the paths are left in the order of their adds.
sorted_paths_Unsorted(paths) == paths

RECURSIVE sorted_paths(_)
sorted_paths(paths) ==
    IF paths = <<>> THEN <<>>
    ELSE InsertPath(paths[Len(paths)], sorted_paths(SubSeq(paths, 1, Len(paths) - 1)))

\* translations_by_path: (sorted(paths), msg) for every item with a msg.
RECURSIVE translations_by_path(_)
translations_by_path(memory) ==
    IF memory = <<>> THEN <<>>
    ELSE (IF Head(memory)[1] # <<>>
          THEN <<<<sorted_paths(Head(memory)[2]), Head(memory)[1]>>>>
          ELSE <<>>)
           \o translations_by_path(Tail(memory))

\* sorted(translations_by_path)
RECURSIVE InsertTuple(_, _)
InsertTuple(x, xs) ==
    IF xs = <<>> THEN <<x>>
    ELSE IF TupleLess(x, Head(xs)) THEN <<x>> \o xs
    ELSE <<Head(xs)>> \o InsertTuple(x, Tail(xs))

RECURSIVE sorted_translations(_)
sorted_translations(xs) ==
    IF xs = <<>> THEN <<>>
    ELSE InsertTuple(xs[Len(xs)], sorted_translations(SubSeq(xs, 1, Len(xs) - 1)))

\* The items of the dict of the escapes, in its order: token, repl.
EscapeTokens ==
    << <<"\\", <<"\\", "\\">>>>,
       <<"\n", <<"\\", "n">>>>,
       <<"\t", <<"\\", "t">>>>,
       <<"\"", <<"\\", "\"">>>> >>

\* for token, repl in tokens: msg = msg.replace(token, repl)
RECURSIVE EscapeWith(_, _)
EscapeWith(msg, tokens) ==
    IF tokens = <<>> THEN msg
    ELSE EscapeWith(Replace(msg, <<Head(tokens)[1]>>, Head(tokens)[2], -1),
                    Tail(tokens))

\* Mutant of Escape: the backslash is replaced last instead of first.
Escape_BackslashLast(msg) ==
    EscapeWith(msg, <<EscapeTokens[2], EscapeTokens[3], EscapeTokens[4],
                      EscapeTokens[1]>>)

\* The loop over the escapes of one msg.
Escape(msg) == EscapeWith(msg, EscapeTokens)

\* The header: of its lines the model keeps msgid "", msgstr "", the line of
\* the language and the empty line that ends it.
PotHeader(lang) ==
    <<"m", "s", "g", "i", "d", " ", "\"", "\"", "\n",
      "m", "s", "g", "s", "t", "r", " ", "\"", "\"", "\n",
      "\"", "L", "a", "n", "g", "u", "a", "g", "e", ":", " ">>
      \o Spell(lang) \o <<"\\", "n", "\"", "\n", "\n">>

\* f'#: {" ".join(paths)}\nmsgid "{msg}"\nmsgstr ""\n\n'
PotEntry(paths, msg) ==
    <<"#", ":", " ">> \o Join(paths, <<" ">>)
      \o <<"\n", "m", "s", "g", "i", "d", " ", "\"">> \o msg
      \o <<"\"", "\n", "m", "s", "g", "s", "t", "r", " ", "\"", "\"", "\n", "\n">>

\* as_pot(content_language, header) as the list pot_elements; what is
\* returned and written is "".join(pot_elements).
as_pot(memory, lang) ==
    LET entries == sorted_translations(translations_by_path(memory))
    IN  <<PotHeader(lang)>>
          \o [i \in 1..Len(entries) |-> PotEntry(entries[i][1], Escape(entries[i][2]))]

----------------------------------------------------------------------------
(* I18NPlugin.process_node: the field walker.                              *)

\* lektor.environment.PRIMARY_ALT
PRIMARY_ALT == "_primary"

\* The values of the option translate that mark a field translatable: "True",
\* "true", "1" and the number 1 (the options of a model file are strings, so
\* the number stands for no other input than "1").
TranslateValues == {"True", "true", "1"}

\* The source string of an add: urljoin(url_prefix, url_path), the relative
\* source file name, the zone and the field name, formatted into one string.
\* The page stands for its url path and its file name: page 1 has the url /1
\* and the file 1.lr.
SourceOf(source, zone, name) ==
    <<"/", Digit(source.page), " ", "(", Digit(source.page), ".", "l", "r", ":">>
      \o Spell(zone) \o <<".">> \o Spell(name) \o <<")">>

\* [x.strip() for x in section if x.strip()]
RECURSIVE StrippedLines(_)
StrippedLines(section) ==
    IF section = <<>> THEN <<>>
    ELSE (IF Strip(Head(section)) # <<>> THEN <<Strip(Head(section))>> ELSE <<>>)
           \o StrippedLines(Tail(section))

\* The chunks of a section: its paragraphs, or its non-blank stripped lines.
Chunks(section, parwise) ==
    IF parwise THEN split_paragraphs(Concat(section)) ELSE StrippedLines(section)

\* Mutant of IsTranslatable: the alt of the source is not looked at.
IsTranslatable_AnyAlt(field, source) ==
    /\ "translate" \in DOMAIN field.options
    /\ field.options.translate \in TranslateValues

\* The condition of the first if of the loop over the fields.
IsTranslatable(field, source) ==
    /\ "translate" \in DOMAIN field.options
    /\ source.alt \in {PRIMARY_ALT, content_language}
    /\ field.options.translate \in TranslateValues

\* The add calls for one field: one per chunk, stripped of "\r\n".
FieldAdds(field, content, source, zone, parwise) ==
    IF IsTranslatable(field, source) /\ field.name \in DOMAIN content.sections
    THEN LET chunks_ == Chunks(content.sections[field.name], parwise)
         IN  [i \in 1..Len(chunks_) |->
                <<StripChars(chunks_[i], CRLF), SourceOf(source, zone, field.name)>>]
    ELSE <<>>

\* source.pad.db.flowblocks[blockname].fields: the flow block model "text"
\* has a translatable field and a field marked not to translate; the model
\* "group" has a translatable field and a flow field of its own.
FlowBlockFields(blockname) ==
    IF blockname = "group"
    THEN <<[name |-> "a", options |-> [translate |-> "true"], flow |-> FALSE],
           [name |-> "c", options |-> [label |-> "Blocks"], flow |-> TRUE]>>
    ELSE <<[name |-> "text", options |-> [translate |-> "1"], flow |-> FALSE],
           [name |-> "b", options |-> [translate |-> "no"], flow |-> FALSE]>>

\* process_node(fields, sections, source, zone, root_path) as the add calls it
\* makes, in order. content.sections is sections; content.flow[name] is what
\* process_flowblock_data and tokenize (lektor's) make of the section of a
\* flow field: the blocks <<blockname, blockcontent>> in order.
RECURSIVE process_node(_, _, _, _, _)
RECURSIVE FlowAdds(_, _, _)
process_node(fields, content, source, zone, parwise) ==
    IF fields = <<>> THEN <<>>
    ELSE LET field == Head(fields)
         IN  FieldAdds(field, content, source, zone, parwise)
               \o (IF field.flow /\ field.name \in DOMAIN content.sections
                   THEN FlowAdds(content.flow[field.name], source, parwise)
                   ELSE <<>>)
               \o process_node(Tail(fields), content, source, zone, parwise)

\* The loop over the blocks of a flow field.
FlowAdds(flowblocks, source, parwise) ==
    IF flowblocks = <<>> THEN <<>>
    ELSE process_node(FlowBlockFields(Head(flowblocks)[1]), Head(flowblocks)[2],
                      source, Head(flowblocks)[1], parwise)
           \o FlowAdds(Tail(flowblocks), source, parwise)

----------------------------------------------------------------------------
(* The documents and catalogs the model runs on.                           *)

\* Longest document, in lines.
MaxLines == 3

\* Lines as file.readlines() returns them, each ending in a newline.
KeyValueLine   == <<"a", ":", " ", "b", "\n">>            \* "a: b"
KeyOnlyLine    == <<"a", ":", "\n">>                      \* "a:"
KeyWideLine    == <<"a", ":", " ", " ", "b", "\n">>       \* "a:  b"
KeyTightLine   == <<"a", ":", "b", "\n">>                 \* "a:b"
KeyIndentLine  == <<" ", "a", ":", " ", "b", "\n">>       \* " a: b"
KeyInnerLine   == <<"b", " ", "a", ":", " ", "c", "\n">>  \* "b a: c"
TextLine       == <<"b", "\n">>                           \* "b"
TextIndentLine == <<" ", "b", " ", "c", " ", "\n">>       \* " b c "
EmptyLine      == <<"\n">>
BlankLine      == <<" ", "\n">>
DashLine       == <<"-", "-", "-", "\n">>                 \* "---"
ShortDashLine  == <<"-", "-", "\n">>                      \* "--"
BlockTagLine   ==
    <<"#", "#", "#", "#", " ", "a", " ", "#", "#", "#", "#", "\n">>  \* "#### a ####"

TerminatedLines ==
    {KeyValueLine, KeyOnlyLine, KeyWideLine, KeyTightLine, KeyIndentLine,
     KeyInnerLine, TextLine, TextIndentLine, EmptyLine, BlankLine, DashLine,
     ShortDashLine, BlockTagLine}

\* The last line of a file may lack its newline.
UnterminatedLines == {<<"a", ":", " ", "b">>, <<"b">>}

\* The documents: up to MaxLines lines, only the last may be unterminated.
Docs ==
    UNION {{d \in [1..n -> TerminatedLines \cup UnterminatedLines] :
               \A i \in 1..(n - 1) : d[i] \in TerminatedLines} : n \in 0..MaxLines}

\* The compiled catalog of a language; gettext.translation falls back to an
\* empty one (NullTranslations) where no .mo file exists.
Catalog(lang) ==
    IF lang = "fr"
    THEN [t \in {<<"b">>, <<"b", " ", "c">>} |-> IF t = <<"b">> THEN <<"x", "y">> ELSE <<"z">>]
    ELSE [t \in {} |-> <<>>]

----------------------------------------------------------------------------
(* The sources of a site.                                                  *)

\* Number of sources of the site.
NumPages == 2

\* source.datamodel.fields of the one page model: a translatable field, a
\* field marked not to translate, and a flow field.
PageFields ==
    <<[name |-> "a", options |-> [translate |-> "True"], flow |-> FALSE],
      [name |-> "b", options |-> [translate |-> "false"], flow |-> FALSE],
      [name |-> "c", options |-> [label |-> "Blocks"], flow |-> TRUE]>>

\* source.datamodel.id
PageModelId == "page"

NoSections == [n \in {} |-> <<>>]

\* A source: is_page (isinstance(source, Page)), its alt, the lines of its
\* file, and what tokenize makes of them: sections (name -> list of lines,
\* the last without its newline) and, per flow field, the blocks.
Source(is_page, alt, filelines, sections, flow) ==
    [is_page |-> is_page, alt |-> alt, lines |-> filelines,
     content |-> [sections |-> sections, flow |-> flow]]

\* a: b
TitlePage ==
    Source(TRUE, PRIMARY_ALT, <<KeyValueLine>>,
           [n \in {"a"} |-> <<<<"b">>>>], NoSections)

\* a: with nothing after it: an empty section
EmptyFieldPage ==
    Source(TRUE, PRIMARY_ALT, <<KeyOnlyLine>>,
           [n \in {"a"} |-> <<>>], NoSections)

\* a: with two paragraphs, and b: with a text that is not to be translated
ParagraphsPage ==
    Source(TRUE, PRIMARY_ALT,
           <<KeyOnlyLine, EmptyLine, TextLine, BlankLine, TextIndentLine,
             DashLine, <<"b", ":", " ", "c", "\n">>>>,
           [n \in {"a", "b"} |->
               IF n = "a"
               THEN <<<<"b", "\n">>, <<" ", "\n">>, <<" ", "b", " ", "c", " ">>>>
               ELSE <<<<"c">>>>],
           NoSections)

\* a: with a text followed by blank lines
TrailingBlankPage ==
    Source(TRUE, PRIMARY_ALT,
           <<KeyOnlyLine, EmptyLine, TextLine, EmptyLine, EmptyLine>>,
           [n \in {"a"} |-> <<<<"b", "\n">>, <<"\n">>, <<>>>>], NoSections)

\* c: a flow field with one block "text" whose field text is c
FlowPage ==
    Source(TRUE, PRIMARY_ALT,
           <<<<"c", ":", "\n">>, EmptyLine, BlockTagLine, <<"a", ":", " ", "c", "\n">>>>,
           [n \in {"c"} |-> <<BlockTagLine, <<"a", ":", " ", "c">>>>],
           [n \in {"c"} |->
              <<<<"text", [sections |-> [k \in {"text"} |-> <<<<"c">>>>],
                           flow |-> NoSections]>>>>])

\* contents+fr.lr: the translated alternative of a page, written by an
\* earlier build.
AltPage ==
    Source(TRUE, "fr", <<<<"a", ":", " ", "x", "y", "\n">>>>,
           [n \in {"a"} |-> <<<<"x", "y">>>>], NoSections)

\* c: a flow field with one block "group", whose field a is b and whose
\* flow field c holds one block "text" with the fields text (c) and b (a).
NestedFlowPage ==
    Source(TRUE, PRIMARY_ALT,
           <<<<"c", ":", "\n">>, EmptyLine, BlockTagLine, <<"a", ":", " ", "b", "\n">>>>,
           [n \in {"c"} |-> <<BlockTagLine, <<"a", ":", " ", "b">>>>],
           [n \in {"c"} |->
              <<<<"group",
                  [sections |->
                      [k \in {"a", "c"} |->
                          IF k = "a" THEN <<<<"b">>>> ELSE <<BlockTagLine>>],
                   flow |->
                      [k \in {"c"} |->
                          <<<<"text",
                              [sections |->
                                  [j \in {"text", "b"} |->
                                      IF j = "text" THEN <<<<"c">>>> ELSE <<<<"a">>>>],
                               flow |-> NoSections]>>>>]]>>>>])

\* contents+fr.lr with a: x y and the flow field c of FlowPage
AltFlowPage ==
    Source(TRUE, "fr",
           <<<<"a", ":", " ", "x", "y", "\n">>, DashLine, <<"c", ":", "\n">>>>,
           [n \in {"a", "c"} |-> IF n = "a" THEN <<<<"x", "y">>>> ELSE <<BlockTagLine>>],
           [n \in {"c"} |->
              <<<<"text", [sections |-> [k \in {"text"} |-> <<<<"c">>>>],
                           flow |-> NoSections]>>>>])

\* contents+en.lr: the alternative of the content language, a: c
ContentAltPage ==
    Source(TRUE, content_language, <<<<"a", ":", " ", "c", "\n">>>>,
           [n \in {"a"} |-> <<<<"c">>>>], NoSections)

\* A source that is no Page (an attachment).
Attachment == Source(FALSE, PRIMARY_ALT, <<>>, NoSections, NoSections)

SourceKinds ==
    {TitlePage, EmptyFieldPage, ParagraphsPage, TrailingBlankPage, FlowPage,
     NestedFlowPage, AltPage, AltFlowPage, ContentAltPage, Attachment}

Pages == 1..NumPages

\* The strings templates pass to translate_tag.
Tags == {<<"b">>, <<" ", "c", " ">>}

\* The source translate_tag gives its texts.
Dynamic == <<"(", "d", "y", "n", "a", "m", "i", "c", ")">>

----------------------------------------------------------------------------
(* State.                                                                  *)

VARIABLES
    trans_parwise,      \* self.trans_parwise (translate_paragraphwise)
    language,           \* the language of the file being written
    lines,              \* file.readlines() of the source document
    pos,                \* lines consumed by the loop of the parser
    blocks,             \* the parser's blocks
    count_lines_block,  \* the parser's count_lines_block
    is_content,         \* the parser's is_content
    prev_line,          \* the parser's prev_line
    chunks,             \* the value __parse_source_structure returned
    out,                \* what was written to the translated file
    pc,                 \* "parse", "write" or "done"
    lookups,            \* the texts passed to translator.gettext, in order
    enabled,            \* self.enabled
    pages,              \* the sources of the site, in os.walk order
    phase,              \* where the build is: "idle", "translating",
                        \* "building", "done", or "aborted" by an exception
    walk,               \* files the loop of translate_contents has handled
    written,            \* the translated files written: <<page, language, text>>
    built,              \* the sources on_after_build was called for
    failed,             \* the sources whose contents could not be read
    translations,       \* the singleton Translations().translations
    pot_written,        \* contents.pot was written by write_pot
    pot                 \* pot_elements of the contents.pot written last

file_vars == <<language, lines, pos, blocks, count_lines_block, is_content,
               prev_line, chunks, out, pc, lookups>>

build_vars == <<enabled, pages, phase, walk, written, built, failed,
                translations, pot_written, pot>>

vars == <<trans_parwise, file_vars, build_vars>>

\* The parser's local variables as one record.
ParseState ==
    [blocks |-> blocks, count_lines_block |-> count_lines_block,
     is_content |-> is_content, prev_line |-> prev_line]

----------------------------------------------------------------------------
(* Spec: translate_contents on one document and one language, the parser's *)
(* loop one line per step.                                                 *)

Init ==
    /\ trans_parwise \in BOOLEAN
    /\ language \in translations_languages
    /\ lines \in Docs
    /\ pos = 0
    /\ blocks = ParseInit.blocks
    /\ count_lines_block = ParseInit.count_lines_block
    /\ is_content = ParseInit.is_content
    /\ prev_line = ParseInit.prev_line
    /\ chunks = <<>>
    /\ out = <<>>
    /\ pc = "parse"
    /\ lookups = <<>>
    /\ enabled = TRUE
    /\ pages = <<>>
    /\ phase = "translating"
    /\ walk = 0
    /\ written = {}
    /\ built = {}
    /\ failed = {}
    /\ translations = NoTranslations
    /\ pot_written = FALSE
    /\ pot = <<>>

\* for line in lines: one iteration.
ParseLine ==
    /\ pc = "parse"
    /\ pos < Len(lines)
    /\ LET st == ProcessLine(ParseState, lines[pos + 1])
       IN  /\ blocks' = st.blocks
           /\ count_lines_block' = st.count_lines_block
           /\ is_content' = st.is_content
           /\ prev_line' = st.prev_line
    /\ pos' = pos + 1
    /\ UNCHANGED <<trans_parwise, language, lines, chunks, out, pc, lookups,
                   build_vars>>

\* After the last line: join neighbour blocks of same type and return.
ParseReturn ==
    /\ pc = "parse"
    /\ pos = Len(lines)
    /\ chunks' = MergeBlocks(blocks)
    /\ pc' = "write"
    /\ UNCHANGED <<trans_parwise, language, lines, pos, blocks,
                   count_lines_block, is_content, prev_line, out, lookups,
                   build_vars>>

\* with open(translated_filename, "w"): write every chunk.
WriteTranslated ==
    /\ pc = "write"
    /\ out' = WriteChunks(chunks, trans_parwise, Catalog(language))
    /\ lookups' = Lookups(chunks, trans_parwise)
    /\ pc' = "done"
    /\ UNCHANGED <<trans_parwise, language, lines, pos, blocks,
                   count_lines_block, is_content, prev_line, chunks, build_vars>>

Next == ParseLine \/ ParseReturn \/ WriteTranslated

Spec == Init /\ [][Next]_vars

----------------------------------------------------------------------------
(* SpecBuild: one build of the site: on_before_build_all, then             *)
(* on_after_build for every source, then on_after_build_all.               *)

InitBuild ==
    /\ trans_parwise \in BOOLEAN
    /\ enabled \in BOOLEAN
    /\ pages \in [Pages -> SourceKinds]
    /\ phase = "idle"
    /\ walk = 0
    /\ written = {}
    /\ built = {}
    /\ failed = {}
    /\ translations = NoTranslations
    /\ pot_written = FALSE
    /\ pot = <<>>
    /\ language = content_language
    /\ lines = <<>>
    /\ pos = 0
    /\ blocks = <<>>
    /\ count_lines_block = 0
    /\ is_content = FALSE
    /\ prev_line = None
    /\ chunks = <<>>
    /\ out = <<>>
    /\ pc = "done"
    /\ lookups = <<>>

\* The file of a source is a contents.lr that os.walk finds.
HasContentsLr(p) == pages[p].is_page /\ pages[p].alt = PRIMARY_ALT

\* The files translate_contents writes for one contents.lr: one per language.
TranslatedFiles(p) ==
    {<<p, lang, WriteChunks(parse_source_structure(pages[p].lines),
                            trans_parwise, Catalog(lang))>> :
        lang \in translations_languages}

\* on_before_build_all, up to the call of translate_contents.
on_before_build_all ==
    /\ phase = "idle"
    /\ phase' = IF enabled THEN "translating" ELSE "building"
    /\ UNCHANGED <<trans_parwise, file_vars, enabled, pages, walk, written,
                   built, failed, translations, pot_written, pot>>

\* translate_contents: one iteration of the loop over the directories. The
\* file is read without a try: an OSError leaves translate_contents and
\* on_before_build_all, and ends the build.
TranslateFile ==
    /\ phase = "translating"
    /\ walk < NumPages
    /\ LET p == walk + 1
       IN  IF ~HasContentsLr(p)
           THEN /\ walk' = walk + 1
                /\ UNCHANGED <<written, failed, phase>>
           ELSE \E readable \in BOOLEAN :
                  IF readable
                  THEN /\ written' = written \cup TranslatedFiles(p)
                       /\ walk' = walk + 1
                       /\ UNCHANGED <<failed, phase>>
                  ELSE /\ failed' = failed \cup {p}
                       /\ phase' = "aborted"
                       /\ UNCHANGED <<written, walk>>
    /\ UNCHANGED <<trans_parwise, file_vars, enabled, pages, built,
                   translations, pot_written, pot>>

\* translate_contents and on_before_build_all return.
TranslateReturn ==
    /\ phase = "translating"
    /\ walk = NumPages
    /\ phase' = "building"
    /\ UNCHANGED <<trans_parwise, file_vars, enabled, pages, walk, written,
                   built, failed, translations, pot_written, pot>>

\* Mutant of on_after_build: the template is written after every source
\* instead of once after the build.
on_after_build_WritesPot(p) ==
    /\ phase = "building"
    /\ p \notin built
    /\ built' = built \cup {p}
    /\ IF enabled /\ pages[p].is_page
       THEN /\ translations' =
                 AddAll(translations,
                        process_node(PageFields, pages[p].content,
                                     [page |-> p, alt |-> pages[p].alt],
                                     PageModelId, trans_parwise))
            /\ pot_written' = TRUE
            /\ pot' = as_pot(translations', content_language)
       ELSE UNCHANGED <<translations, pot_written, pot>>
    /\ UNCHANGED <<trans_parwise, file_vars, enabled, pages, phase, walk,
                   written, failed>>

\* on_after_build(source): the contents are read in a try; an OSError skips
\* the source.
on_after_build(p) ==
    /\ phase = "building"
    /\ p \notin built
    /\ built' = built \cup {p}
    /\ IF enabled /\ pages[p].is_page
       THEN \E readable \in BOOLEAN :
              IF readable
              THEN /\ translations' =
                        AddAll(translations,
                               process_node(PageFields, pages[p].content,
                                            [page |-> p, alt |-> pages[p].alt],
                                            PageModelId, trans_parwise))
                   /\ UNCHANGED failed
              ELSE /\ failed' = failed \cup {p}
                   /\ UNCHANGED translations
       ELSE UNCHANGED <<translations, failed>>
    /\ UNCHANGED <<trans_parwise, file_vars, enabled, pages, phase, walk,
                   written, pot_written, pot>>

\* translate_tag(tag_string), called by a template while a page is built,
\* with ctx.locale = locale.
translate_tag(tag_string, locale) ==
    /\ phase = "building"
    /\ enabled
    /\ translations' = IF content_language = locale
                       THEN add(translations, Strip(tag_string), Dynamic)
                       ELSE translations
    /\ UNCHANGED <<trans_parwise, file_vars, enabled, pages, phase, walk,
                   written, built, failed, pot_written, pot>>

\* on_after_build_all: write contents.pot (and merge and update the .po
\* files, which are the gettext tools' work).
on_after_build_all ==
    /\ phase = "building"
    /\ built = Pages
    /\ pot_written' = enabled
    /\ pot' = IF enabled THEN as_pot(translations, content_language) ELSE pot
    /\ phase' = "done"
    /\ UNCHANGED <<trans_parwise, file_vars, enabled, pages, walk, written,
                   built, failed, translations>>

NextBuild ==
    \/ on_before_build_all
    \/ TranslateFile
    \/ TranslateReturn
    \/ \E p \in Pages : on_after_build(p)
    \/ \E tag \in Tags, locale \in translations_languages : translate_tag(tag, locale)
    \/ on_after_build_all

SpecBuild == InitBuild /\ [][NextBuild]_vars

----------------------------------------------------------------------------
(* SpecPot: the class Translations on its own: adds by any caller, then    *)
(* write_pot.                                                              *)

\* Most sources the memory holds, counted over all its keys.
MaxAdds == 4

\* The texts of the adds: the empty text, a word, a paragraph of two lines,
\* a text with a backslash before an n, a double-quote and a tab, and a
\* text with a carriage return inside.
PotTexts ==
    {<<>>, <<"b">>, <<"a", "\n", "b">>, <<"\\", "n", "\"", "\t">>,
     <<"b", "\r", "c">>}

\* The sources of the adds: translate_tag's and two of process_node's.
PotSources ==
    {Dynamic, SourceOf([page |-> 1], "page", "a"),
     SourceOf([page |-> 2], "text", "text")}

\* The number of sources the memory holds.
RECURSIVE MemorySize(_)
MemorySize(memory) ==
    IF memory = <<>> THEN 0 ELSE Len(Head(memory)[2]) + MemorySize(Tail(memory))

InitPot ==
    /\ trans_parwise = FALSE
    /\ enabled = TRUE
    /\ pages = <<>>
    /\ phase = "building"
    /\ walk = 0
    /\ written = {}
    /\ built = {}
    /\ failed = {}
    /\ translations = NoTranslations
    /\ pot_written = FALSE
    /\ pot = <<>>
    /\ language = content_language
    /\ lines = <<>>
    /\ pos = 0
    /\ blocks = <<>>
    /\ count_lines_block = 0
    /\ is_content = FALSE
    /\ prev_line = None
    /\ chunks = <<>>
    /\ out = <<>>
    /\ pc = "done"
    /\ lookups = <<>>

\* translations.add(text, source)
Translations_add(text, source) ==
    /\ phase = "building"
    /\ MemorySize(translations) < MaxAdds
    /\ translations' = add(translations, text, source)
    /\ UNCHANGED <<trans_parwise, file_vars, enabled, pages, phase, walk,
                   written, built, failed, pot_written, pot>>

\* translations.write_pot(pot_filename, language)
write_pot ==
    /\ phase = "building"
    /\ pot' = as_pot(translations, content_language)
    /\ pot_written' = TRUE
    /\ phase' = "done"
    /\ UNCHANGED <<trans_parwise, file_vars, enabled, pages, walk, written,
                   built, failed, translations>>

NextPot ==
    \/ \E text \in PotTexts, source \in PotSources : Translations_add(text, source)
    \/ write_pot

SpecPot == InitPot /\ [][NextPot]_vars

----------------------------------------------------------------------------
(* Claims about the parser and the reconstructor (under Spec).             *)

HasColon(line) == \E i \in 1..Len(line) : line[i] = ":"

\* The line, stripped, is three or more dashes.
IsDashes(line) ==
    Len(Strip(line)) >= 3 /\ \A i \in 1..Len(Strip(line)) : Strip(line)[i] = "-"

\* The line, stripped, is a block tag: ####.. label ####..
IsBlockTag(line) ==
    LET s == Strip(line)
    IN  /\ Len(s) >= 8
        /\ \A i \in 1..4 : s[i] = "#" /\ s[Len(s) + 1 - i] = "#"

\* The line the step ParseLine consumes.
CurrentLine == lines[pos + 1]

\* The parser has returned.
Parsed == pc \in {"write", "done"}

\* C1: concatenating the text of the spans __parse_source_structure returns
\* gives the document back exactly.
C1_RoundTrip == Parsed => BlocksText(chunks) = Concat(lines)

\* C2: with a lookup that returns its input unchanged (the content language,
\* whose catalog is the fallback), in both modes, the file written is
\* identical to the source document.
C2_UntranslatedFallback ==
    (pc = "done" /\ language = content_language) => out = Concat(lines)

\* C3: a line of three or more dashes that was classified as a block boundary
\* (count_lines_block reset to 0) is immediately preceded in the document by a
\* line that contains a colon.
C3_BoundaryNeedsColonBefore ==
    (pc = "parse" /\ pos >= 1 /\ IsDashes(lines[pos]) /\ count_lines_block = 0)
        => (pos >= 2 /\ HasColon(lines[pos - 1]))

\* C4 as stated: in content mode every line up to the next block boundary
\* (a step that resets count_lines_block to 0) is emitted as a translatable
\* span holding the line unchanged, and content mode is kept.
C4_EveryLineTranslatable ==
    [][(ParseLine /\ is_content /\ count_lines_block' # 0)
          => (is_content' /\ blocks' = Append(blocks, <<"translatable", CurrentLine>>))]_vars

\* C4 amended: a non-blank line counted as the first of its block that has no
\* colon enters content mode; in content mode a blank line is emitted as the raw newline
\* and keeps the mode, a dash or tag line may end the mode as a raw span, and
\* every other line is emitted as one translatable span holding the line
\* unchanged, never split as key: value; only a boundary resets is_content.
C4_ContentSticky ==
    [][ParseLine =>
         /\ (count_lines_block = 0 /\ count_lines_block' = 1
               /\ Strip(CurrentLine) # <<>> /\ ~HasColon(CurrentLine))
              => (is_content' /\ blocks' = Append(blocks, <<"translatable", CurrentLine>>))
         /\ is_content =>
              IF Strip(CurrentLine) = <<>>
              THEN is_content' /\ blocks' = Append(blocks, <<"raw", <<"\n">>>>)
              ELSE IF is_content'
              THEN blocks' = Append(blocks, <<"translatable", CurrentLine>>)
              ELSE /\ IsDashes(CurrentLine) \/ IsBlockTag(CurrentLine)
                   /\ count_lines_block' = 0
                   /\ blocks' = Append(blocks, <<"raw", CurrentLine>>)]_vars

\* A line that looks like key: value was kept whole in content mode, after a
\* blank line inside the content block.
C4_Witness ==
    /\ pc = "parse" /\ pos = 3 /\ is_content
    /\ lines[1] = TextLine /\ lines[2] = EmptyLine /\ lines[3] = KeyValueLine
    /\ blocks = <<<<"translatable", TextLine>>, <<"raw", <<"\n">>>>,
                  <<"translatable", KeyValueLine>>>>

\* line is K: V and a newline, K of key characters other than the colon, V
\* not empty and without surrounding blanks; i is where the colon is.
IsKeyValueAt(line, i) ==
    /\ 1 < i /\ i + 2 < Len(line)
    /\ \A k \in 1..(i - 1) : line[k] \in KeyClass \ {":"}
    /\ line[i] = ":" /\ line[i + 1] = " "
    /\ line[Len(line)] = "\n"
    /\ SubSeq(line, i + 2, Len(line) - 1) = Strip(SubSeq(line, i + 2, Len(line) - 1))
    /\ \A k \in i..(Len(line) - 1) : line[k] # "\n"

\* line is K: and a newline
IsKeyOnlyAt(line, i) ==
    /\ 1 < i /\ i + 1 = Len(line)
    /\ \A k \in 1..(i - 1) : line[k] \in KeyClass \ {":"}
    /\ line[i] = ":" /\ line[i + 1] = "\n"

\* C5: on the first line of a block, outside content mode, K: V appends
\* (raw, K:), (raw, " "), (translatable, V), (raw, newline) and nothing else;
\* K: appends (raw, K:), (raw, newline); a document of the one line K: V is
\* returned as [(raw, "K: "), (translatable, V), (raw, newline)].
C5_KeyValueExtraction ==
    /\ [][(ParseLine /\ count_lines_block = 0 /\ ~is_content) =>
            \A i \in 1..Len(CurrentLine) :
               /\ IsKeyValueAt(CurrentLine, i) =>
                    /\ blocks' = blocks \o
                         <<<<"raw", SubSeq(CurrentLine, 1, i)>>,
                           <<"raw", <<" ">>>>,
                           <<"translatable", SubSeq(CurrentLine, i + 2, Len(CurrentLine) - 1)>>,
                           <<"raw", <<"\n">>>>>>
                    /\ ~is_content'
               /\ IsKeyOnlyAt(CurrentLine, i) =>
                    /\ blocks' = blocks \o
                         <<<<"raw", SubSeq(CurrentLine, 1, i)>>, <<"raw", <<"\n">>>>>>
                    /\ ~is_content']_vars
    /\ [](Parsed /\ Len(lines) = 1 =>
            \A i \in 1..Len(lines[1]) :
               IsKeyValueAt(lines[1], i) =>
                  chunks = <<<<"raw", SubSeq(lines[1], 1, i + 1)>>,
                             <<"translatable", SubSeq(lines[1], i + 2, Len(lines[1]) - 1)>>,
                             <<"raw", <<"\n">>>>>>)

\* A key: value line was split as the first line of a block after a boundary.
C5_Witness ==
    /\ pc = "parse" /\ pos = 3 /\ ~is_content /\ count_lines_block = 1
    /\ lines[2] = DashLine /\ lines[3] = KeyValueLine
    /\ SubSeq(blocks, Len(blocks) - 3, Len(blocks)) =
          <<<<"raw", <<"a", ":">>>>, <<"raw", <<" ">>>>,
            <<"translatable", <<"b">>>>, <<"raw", <<"\n">>>>>>

----------------------------------------------------------------------------
(* Claims about the build and the translation memory (under SpecBuild).    *)

\* C7 as stated: the traversal has completed (on_after_build has run for
\* every source) before the template is written and before any translated
\* document is written.
C7_TraversalBeforeOutputs ==
    (pot_written \/ written # {}) => built = Pages

\* C7 amended: the traversal has completed before the template is written;
\* the translated documents are written by on_before_build_all, before the
\* traversal of the same build starts.
C7_PhaseOrder ==
    /\ [](pot_written => built = Pages)
    /\ [](phase \in {"idle", "translating"} => built = {} /\ ~pot_written)
    /\ [][written' # written => phase = "translating" /\ built = {}]_vars

\* A build that wrote translated documents, filled the memory and wrote the
\* template.
C7_Witness ==
    /\ phase = "done" /\ pot_written
    /\ written # {}
    /\ built = Pages
    /\ translations # NoTranslations

\* C8: a failure to read one source document never ends the whole run.
C8_ReadFailureRecovered == failed # {} => phase # "aborted"

\* xs is a prefix of ys
IsPrefix(xs, ys) == Len(xs) <= Len(ys) /\ SubSeq(ys, 1, Len(xs)) = xs

\* new holds every key and source of old, in the same order, new ones after.
Extends(old, new) ==
    /\ Len(old) <= Len(new)
    /\ \A i \in 1..Len(old) :
          new[i][1] = old[i][1] /\ IsPrefix(old[i][2], new[i][2])

NoDuplicates(xs) == \A i, j \in 1..Len(xs) : xs[i] = xs[j] => i = j

\* The texts and sources add is tried with in every reachable memory.
ProbeTexts == Keys(translations) \cup {<<"b">>, <<"q">>}
ProbeSources ==
    UNION {{translations[i][2][j] : j \in 1..Len(translations[i][2])} :
              i \in 1..Len(translations)} \cup {Dynamic, <<"n", "e", "w">>}

\* C9: each text is one key, each source is once in its list; a step only
\* appends keys and sources (first-seen order, nothing removed); add(text,
\* source) leaves the text a key with the source in its list, keeps what was
\* there, and made a second time changes nothing.
C9_Deduplication ==
    /\ [](/\ NoDuplicates([i \in 1..Len(translations) |-> translations[i][1]])
          /\ \A i \in 1..Len(translations) :
                translations[i][2] # <<>> /\ NoDuplicates(translations[i][2]))
    /\ [][Extends(translations, translations')]_vars
    /\ [](\A text \in ProbeTexts, source \in ProbeSources :
            LET once == add(translations, text, source)
            IN  /\ Extends(translations, once)
                /\ text \in Keys(once)
                /\ InSeq(source, Sources(once, text))
                /\ Len(once) = Len(translations)
                      + (IF text \in Keys(translations) THEN 0 ELSE 1)
                /\ add(once, text, source) = once)

\* One text with two sources in first-seen order, after a second text.
C9_Witness ==
    \E i \in 1..Len(translations) :
        /\ i >= 2
        /\ Len(translations[i][2]) >= 2
        /\ translations[i][2][1] # Dynamic
        /\ translations[i][2][Len(translations[i][2])] = Dynamic

\* C10: every text process_node added to the memory (every key with a source
\* other than translate_tag's) is non-empty.
C10_WalkerAddsNonEmpty ==
    \A i \in 1..Len(translations) :
        (\E j \in 1..Len(translations[i][2]) : translations[i][2][j] # Dynamic)
            => translations[i][1] # <<>>

\* The physical lines of a text: what lies between its newlines, without
\* the empty rest after a last newline.
PhysicalLines(text) ==
    LET parts == SplitChar(text, "\n")
    IN  IF parts[Len(parts)] = <<>> THEN SubSeq(parts, 1, Len(parts) - 1) ELSE parts

\* The text has a line that is empty or holds only whitespace.
HasBlankLine(text) ==
    \E i \in 1..Len(PhysicalLines(text)) : Strip(PhysicalLines(text)[i]) = <<>>

\* The translatable spans the parser returned.
TranslatableSpans ==
    {chunks[i][2] : i \in {j \in 1..Len(chunks) : chunks[j][1] = "translatable"}}

\* The number of lines of the translatable spans that are not blank.
RECURSIVE CountNonBlank(_)
CountNonBlank(chunks_) ==
    IF chunks_ = <<>> THEN 0
    ELSE (IF Head(chunks_)[1] = "translatable"
          THEN Cardinality({i \in 1..Len(PhysicalLines(Head(chunks_)[2])) :
                               Strip(PhysicalLines(Head(chunks_)[2])[i]) # <<>>})
          ELSE 0)
           + CountNonBlank(Tail(chunks_))

\* C14: no text passed to the translation lookup is empty or only
\* whitespace. Line by line, one lookup is made per line of a span that is
\* not blank; paragraph by paragraph, no translatable span has a blank line,
\* so that each span is one paragraph, looked up once, and its text without
\* the newlines at its ends (the search string of replace) is not empty.
C14_LookupsNonEmpty ==
    pc = "done" =>
        /\ \A i \in 1..Len(lookups) : Strip(lookups[i]) # <<>>
        /\ ~trans_parwise => Len(lookups) = CountNonBlank(chunks)
        /\ trans_parwise =>
              /\ Len(lookups) = Cardinality({j \in 1..Len(chunks) :
                                                chunks[j][1] = "translatable"})
              /\ \A span \in TranslatableSpans :
                    /\ ~HasBlankLine(span)
                    /\ Len(split_paragraphs(span)) = 1
                    /\ StripChars(span, CRLF) # <<>>

\* Paragraph by paragraph, a document with blank lines between its texts and
\* with a span of two lines, which is looked up as one text.
C14_Witness ==
    /\ pc = "done"
    /\ trans_parwise
    /\ \E i \in 1..Len(lines) : Strip(lines[i]) = <<>>
    /\ \E i \in 1..Len(lookups) : \E j \in 1..Len(lookups[i]) : lookups[i][j] = "\n"

\* The elements of a sequence.
Range(xs) == {xs[i] : i \in 1..Len(xs)}

\* The pairs <<text, source>> the memory holds.
Pairs(memory) ==
    UNION {{<<memory[i][1], memory[i][2][j]>> : j \in 1..Len(memory[i][2])} :
              i \in 1..Len(memory)}

\* The pairs <<unit, source>> of the fields that pass the three conditions, at
\* every depth: the units of a field count when its option translate is one
\* of the truthy values, the alt of the source is the primary alt or the
\* content language, and its name is a key of the sections; the blocks of a
\* flow field are entered when its name is a key of the sections.
RECURSIVE GatedPairs(_, _, _, _)
GatedPairs(fields, content, source, zone) ==
    UNION {
        (IF /\ "translate" \in DOMAIN f.options
            /\ f.options.translate \in {"True", "true", "1"}
            /\ source.alt \in {PRIMARY_ALT, content_language}
            /\ f.name \in DOMAIN content.sections
         THEN {<<StripChars(unit, CRLF), SourceOf(source, zone, f.name)>> :
                  unit \in Range(Chunks(content.sections[f.name], trans_parwise))}
         ELSE {})
        \cup
        (IF f.flow /\ f.name \in DOMAIN content.sections
         THEN UNION {GatedPairs(FlowBlockFields(block[1]), block[2], source, block[1]) :
                        block \in Range(content.flow[f.name])}
         ELSE {}) : f \in Range(fields)}

\* The pairs process_node may add for the source p.
GatedPairsOf(p) ==
    GatedPairs(PageFields, pages[p].content, [page |-> p, alt |-> pages[p].alt],
               PageModelId)

\* C13: the call of process_node for a source adds to the memory only units
\* of fields that pass the three conditions (translate truthy, alt primary or
\* content language, name a key of the sections), at every depth of the flow
\* blocks; it adds every such unit, also below a flow field that is not
\* itself translatable; and it leaves the memory as it was when no field
\* qualifies.
C13_GatedAdds ==
    [][\A p \in Pages :
          (p \notin built /\ p \in built') =>
              /\ Pairs(translations') \ Pairs(translations) \subseteq GatedPairsOf(p)
              /\ (enabled /\ pages[p].is_page /\ p \notin failed')
                    => GatedPairsOf(p) \subseteq Pairs(translations')
              /\ GatedPairsOf(p) = {} => translations' = translations]_vars

\* A nested flow page whose unit two blocks deep is in the memory, while the
\* field of its inner block that is marked not to translate added nothing,
\* and a read alternative of another language, with a flow field, that added
\* nothing.
C13_Witness ==
    \E p, q \in Pages :
        /\ pages[p] = NestedFlowPage /\ pages[q] = AltFlowPage
        /\ {p, q} \subseteq built /\ q \notin failed
        /\ <<<<"c">>, SourceOf([page |-> p], "text", "text")>> \in Pairs(translations)
        /\ <<<<"b">>, SourceOf([page |-> p], "group", "a")>> \in Pairs(translations)
        /\ \A text \in Keys(translations) :
              /\ ~InSeq(SourceOf([page |-> p], "text", "b"), Sources(translations, text))
              /\ \A zone \in {"page", "text"}, name \in {"a", "text"} :
                    ~InSeq(SourceOf([page |-> q], zone, name), Sources(translations, text))

----------------------------------------------------------------------------
(* Claims about the template (under SpecPot).                              *)

\* The index of the first newline of a text.
FirstNewline(e) ==
    CHOOSE i \in 1..Len(e) : e[i] = "\n" /\ \A j \in 1..(i - 1) : e[j] # "\n"

\* The comment line of an entry, without its "#: ".
CommentOf(e) == SubSeq(e, 4, FirstNewline(e) - 1)

\* The text between the quotes of the msgid of an entry.
MsgidOf(e) == SubSeq(e, FirstNewline(e) + 8, Len(e) - 13)

\* An entry is made of "#: ", its comment, the msgid and an empty msgstr.
WellFramed(e) ==
    /\ Len(e) >= 24
    /\ SubSeq(e, 1, 3) = <<"#", ":", " ">>
    /\ SubSeq(e, FirstNewline(e), FirstNewline(e) + 7)
          = <<"\n", "m", "s", "g", "i", "d", " ", "\"">>
    /\ SubSeq(e, Len(e) - 12, Len(e))
          = <<"\"", "\n", "m", "s", "g", "s", "t", "r", " ", "\"", "\"", "\n", "\n">>

\* What a reader of the template makes of the text of a msgid: a backslash
\* and the character after it stand for one character.
RECURSIVE Unescape(_)
Unescape(s) ==
    IF s = <<>> THEN <<>>
    ELSE IF Head(s) = "\\" /\ Len(s) >= 2
         THEN <<CASE s[2] = "n" -> "\n" [] s[2] = "t" -> "\t" [] OTHER -> s[2]>>
                \o Unescape(Drop(s, 3))
         ELSE <<Head(s)>> \o Unescape(Tail(s))

\* The strings of a set in ascending order.
RECURSIVE Ascending(_)
Ascending(S) ==
    IF S = {} THEN <<>>
    ELSE LET least == CHOOSE x \in S : \A y \in S \ {x} : StrLess(x, y)
         IN  <<least>> \o Ascending(S \ {least})

\* The provenances of a key, in ascending order.
Provenances(text) ==
    Ascending({Sources(translations, text)[j] :
                  j \in 1..Len(Sources(translations, text))})

\* The memory with its keys, and the sources of every key, in reverse order.
Reversed(xs) == [i \in 1..Len(xs) |-> xs[Len(xs) + 1 - i]]
ReversedMemory ==
    Reversed([i \in 1..Len(translations) |->
                 <<translations[i][1], Reversed(translations[i][2])>>])

\* C11: the template written holds, after the header, one entry per non-empty
\* key of the memory and none for the empty key; the entries ascend by the
\* pair (sorted provenances of the key, text); the comment line of an entry
\* lists the provenances of its key in ascending order; and the template is
\* the same for the same memory filled in another order.
C11_EntriesSortedByProvenance ==
    pot_written =>
        /\ pot # <<>>
        /\ pot[1] = PotHeader(content_language)
        /\ Len(pot) - 1 = Cardinality(Keys(translations) \ {<<>>})
        /\ \A text \in Keys(translations) \ {<<>>} :
              \E i \in 2..Len(pot) : Unescape(MsgidOf(pot[i])) = text
        /\ \A i \in 2..Len(pot) :
              /\ WellFramed(pot[i])
              /\ Unescape(MsgidOf(pot[i])) \in Keys(translations) \ {<<>>}
              /\ CommentOf(pot[i])
                    = Join(Provenances(Unescape(MsgidOf(pot[i]))), <<" ">>)
        /\ \A i, j \in 2..Len(pot) :
              i < j =>
                 TupleLess(<<Provenances(Unescape(MsgidOf(pot[i]))),
                             Unescape(MsgidOf(pot[i]))>>,
                           <<Provenances(Unescape(MsgidOf(pot[j]))),
                             Unescape(MsgidOf(pot[j]))>>)
        /\ as_pot(ReversedMemory, content_language) = pot

\* A template of two entries written from a memory that holds the empty key,
\* a key whose sources were added in descending order, and after it a key
\* whose entry comes first.
C11_Witness ==
    /\ pot_written
    /\ Len(pot) = 3
    /\ <<>> \in Keys(translations)
    /\ \E i, j \in 1..Len(translations) :
          /\ i < j
          /\ Len(translations[i][2]) = 2
          /\ StrLess(translations[i][2][2], translations[i][2][1])
          /\ Unescape(MsgidOf(pot[2])) = translations[j][1]
          /\ Unescape(MsgidOf(pot[3])) = translations[i][1]
          /\ StrLess(translations[i][1], translations[j][1])

\* The escape of one character: two characters for a backslash, a newline, a
\* tab and a double-quote, the character itself for any other.
EscapeChar(c) ==
    CASE c = "\\" -> <<"\\", "\\">>
      [] c = "\n" -> <<"\\", "n">>
      [] c = "\t" -> <<"\\", "t">>
      [] c = "\"" -> <<"\\", "\"">>
      [] OTHER -> <<c>>

\* A text with every character escaped once.
EscapedOnce(msg) == Concat([i \in 1..Len(msg) |-> EscapeChar(msg[i])])

\* The number of backslashes that end at position j of m.
RECURSIVE BackslashesUpTo(_, _)
BackslashesUpTo(m, j) ==
    IF j >= 1 /\ m[j] = "\\" THEN 1 + BackslashesUpTo(m, j - 1) ELSE 0

\* Every double-quote of m has an odd number of backslashes before it.
QuotesEscaped(m) ==
    \A j \in 1..Len(m) : m[j] = "\"" => BackslashesUpTo(m, j - 1) % 2 = 1

\* The texts between the msgid quotes of the entries written.
Msgids == {MsgidOf(pot[i]) : i \in 2..Len(pot)}

\* C12 as stated: the text between the msgid quotes of every entry holds no
\* raw newline, tab or carriage return and no unescaped double-quote, and is
\* the text of a key with backslash, newline, tab and double-quote escaped
\* exactly once.
C12_NoRawControlCharacter ==
    pot_written =>
        \A m \in Msgids :
            /\ \A j \in 1..Len(m) : m[j] \notin {"\n", "\t", "\r"}
            /\ QuotesEscaped(m)
            /\ \E text \in Keys(translations) : m = EscapedOnce(text)

\* C12 amended: the text between the msgid quotes of every entry holds no raw
\* newline or tab and no unescaped double-quote, and is the text of a key with
\* backslash, newline, tab and double-quote escaped exactly once (a backslash
\* made by an escape is not escaped again); a carriage return is not escaped
\* and is written raw.
C12_EscapedOnce ==
    pot_written =>
        /\ \A m \in Msgids :
              /\ \A j \in 1..Len(m) : m[j] \notin {"\n", "\t"}
              /\ QuotesEscaped(m)
              /\ \E text \in Keys(translations) \ {<<>>} : m = EscapedOnce(text)
        /\ \A text \in Keys(translations) \ {<<>>} :
              /\ EscapedOnce(text) \in Msgids
              /\ (\E j \in 1..Len(text) : text[j] = "\r")
                    => \E m \in Msgids : \E j \in 1..Len(m) : m[j] = "\r"

\* A template with the entries of a text that holds a backslash, a
\* double-quote and a tab, of a text that holds a newline and of a text that
\* holds a carriage return.
C12_Witness ==
    /\ pot_written
    /\ <<"\\", "\\", "n", "\\", "\"", "\\", "t">> \in Msgids
    /\ <<"a", "\\", "n", "b">> \in Msgids
    /\ <<"b", "\r", "c">> \in Msgids

====
